---- MODULE Spec2Model ----
(***************************************************************************)
(* Model of src/main.py: a Telegram bot that relays the files behind a     *)
(* public MEGA link.  One request is one update posted to the webhook; it  *)
(* is dispatched to cmd_start, to handle_mega or to no handler.  The       *)
(* actions are the steps of the event loop between two awaits of a         *)
(* request, plus the worker thread that runs the blocking download.        *)
(*                                                                         *)
(* calls[r] is the list of the calls request r has awaited, in the order   *)
(* in which they were started; the entry of a call holds its result once   *)
(* the call has returned or raised.  The outcomes the model ranges over    *)
(* are those of the download (what it writes, whether it raises), of each  *)
(* send_document attempt, of the directory enumeration order and of each   *)
(* unlink of the cleanup; message.answer, status.edit_text, status.delete  *)
(* and asyncio.sleep are calls that return.                                *)
(*                                                                         *)
(* Spec posts one update drawn from all the texts; SpecConc posts two      *)
(* updates, drawn from fewer texts, whose handlers interleave; SpecApp     *)
(* adds the shutdown hook; SpecLive is one request under fairness.         *)
(***************************************************************************)
EXTENDS Integers, Sequences, FiniteSets, TLC

\* ------------------------------------------------------------------ bounds
MaxFiles == 2
MaxRetryAfter == 2
ConcFiles == 1

Requests == {"r1", "r2"}
Chats == {"c1", "c2"}
TmpNames == <<"t1", "t2">>

\* ------------------------------------------------------- text of a message
HTTPS == <<"h", "t", "t", "p", "s">>
HTTP == <<"h", "t", "t", "p">>
SEP == <<":", "/", "/">>
MEGA_NZ == <<"m", "e", "g", "a", ".", "n", "z">>
MEGA_CO_NZ == <<"m", "e", "g", "a", ".", "c", "o", ".", "n", "z">>
SLASH == <<"/">>
SPACE == <<" ">>
TAIL == <<"f", "i", "l", "e">>

MEGA_PREFIXES ==
    << HTTPS \o SEP \o MEGA_NZ \o SLASH,
       HTTP \o SEP \o MEGA_NZ \o SLASH,
       HTTPS \o SEP \o MEGA_CO_NZ \o SLASH,
       HTTP \o SEP \o MEGA_CO_NZ \o SLASH >>

START_CMD == <<"/", "s", "t", "a", "r", "t">>

\* a message without text (a photo, a sticker): message.text is None
NoText == <<"None">>

Whitespace == {" ", "\n"}

\* the texts the inbound messages are drawn from
Texts ==
    { HTTPS \o SEP \o MEGA_NZ \o SLASH \o TAIL,
      HTTP \o SEP \o MEGA_NZ \o SLASH \o TAIL,
      HTTPS \o SEP \o MEGA_CO_NZ \o SLASH \o TAIL,
      HTTP \o SEP \o MEGA_CO_NZ \o SLASH \o TAIL,
      HTTPS \o SEP \o MEGA_NZ \o SLASH \o TAIL \o SPACE,
      SPACE \o HTTPS \o SEP \o MEGA_NZ \o SLASH \o TAIL,
      HTTPS \o SEP \o MEGA_NZ,
      HTTPS \o SEP \o MEGA_NZ \o <<".">> \o TAIL,
      <<"f", "t", "p">> \o SEP \o MEGA_NZ \o SLASH \o TAIL,
      TAIL \o SPACE \o HTTPS \o SEP \o MEGA_NZ \o SLASH,
      START_CMD,
      <<>>,
      NoText }

RECURSIVE lstrip(_)
lstrip(text) ==
    IF text # <<>> /\ Head(text) \in Whitespace THEN lstrip(Tail(text)) ELSE text

RECURSIVE rstrip(_)
rstrip(text) ==
    IF text # <<>> /\ text[Len(text)] \in Whitespace
    THEN rstrip(SubSeq(text, 1, Len(text) - 1))
    ELSE text

\* str.strip()
strip(text) == rstrip(lstrip(text))

\* mutant: the filter is applied to the stripped text
Mutant_startswith(text, prefixes) ==
    \E i \in DOMAIN prefixes :
        /\ Len(prefixes[i]) <= Len(strip(text))
        /\ SubSeq(strip(text), 1, Len(prefixes[i])) = prefixes[i]

\* str.startswith(tuple): some element of the tuple is a prefix of the text
startswith(text, prefixes) ==
    \E i \in DOMAIN prefixes :
        /\ Len(prefixes[i]) <= Len(text)
        /\ SubSeq(text, 1, Len(prefixes[i])) = prefixes[i]

\* the texts of the runs with concurrent requests
ConcTexts ==
    { HTTPS \o SEP \o MEGA_NZ \o SLASH \o TAIL,
      TAIL \o SPACE \o HTTPS \o SEP \o MEGA_NZ \o SLASH,
      START_CMD }

\* ------------------------------------------------------------ message texts
START_TXT == "Hello! Send me any public MEGA.nz link"
PREPARING_TXT == "Preparing download"
NOTHING_TXT == "Nothing was downloaded. Is the link valid & public?"
UPLOADING_TXT == "Uploading to Telegram"

\* --------------------------------------------------------------- filesystem
TMP == <<"/tmp">>
NoDir == <<>>

\* Path / "out"
OutDir(tmpdir) == tmpdir \o <<"out">>
\* a subdirectory the download may create under its destination
SubDir(dest) == dest \o <<"sub">>

\* p is d or lies below d
IsUnder(p, d) == Len(d) <= Len(p) /\ SubSeq(p, 1, Len(d)) = d

\* a regular file: the directory that holds it and its name
File(dir, name) == [dir |-> dir, name |-> name]

VARIABLES
    pending,    \* the requests whose update has not been posted yet
    pc,         \* pc[r]: the await request r is suspended at
    msg,        \* msg[r]: the inbound message, [text, chat]
    link,       \* link[r]: handle_mega's local link
    tmpdir,     \* tmpdir[r]: handle_mega's local tmpdir, NoDir before mkdtemp
    files,      \* files[r]: handle_mega's local files
    idx,        \* idx[r]: position of the for loop in files[r]
    calls,      \* calls[r]: the calls awaited by request r, oldest first
    fut,        \* fut[r]: the future of run_in_executor
    fetched,    \* fetched[r]: the regular files the download wrote
    outcome,    \* outcome[r]: how the handler of r ended
    response,   \* response[r]: what the webhook endpoint answered
    error,      \* error[r]: the exception that left the handler of r
    app,        \* the process: its phase, the bot session, the shutdown hook
    scenario,   \* the inputs the run draws from: "single", "concurrent", "live"
    fsDirs,     \* the directories that exist
    fsFiles     \* the regular files that exist

vars == << pending, pc, msg, link, tmpdir, files, idx, calls, fut, fetched,
           outcome, response, error, app, scenario, fsDirs, fsFiles >>

NoMsg == [text |-> NoText, chat |-> "none"]

\* the process after the module has been loaded: bot and dispatcher exist,
\* the startup hook has not run
NewApp == [phase |-> "created", session |-> "open", hook |-> "none"]

\* no update has been posted yet
Idle ==
    /\ pc = [r \in Requests |-> "idle"]
    /\ msg = [r \in Requests |-> NoMsg]
    /\ link = [r \in Requests |-> <<>>]
    /\ tmpdir = [r \in Requests |-> NoDir]
    /\ files = [r \in Requests |-> <<>>]
    /\ idx = [r \in Requests |-> 0]
    /\ calls = [r \in Requests |-> <<>>]
    /\ fut = [r \in Requests |-> "none"]
    /\ fetched = [r \in Requests |-> {}]
    /\ outcome = [r \in Requests |-> "none"]
    /\ response = [r \in Requests |-> "none"]
    /\ error = [r \in Requests |-> [type |-> "none", retry_after |-> 0]]
    /\ app = NewApp
    /\ fsDirs = {TMP}
    /\ fsFiles = {}

\* one update will be posted, drawn from all the inputs
Init ==
    /\ Idle
    /\ pending = {"r1"}
    /\ scenario = "single"

\* every request of Requests will be posted, drawn from the smaller inputs
InitApp ==
    /\ Idle
    /\ pending = Requests
    /\ scenario = "concurrent"

\* one update will be posted, drawn from the smaller texts
InitLive ==
    /\ Idle
    /\ pending = {"r1"}
    /\ scenario = "live"

\* the texts and the file names the run draws from
InputTexts == IF scenario = "single" THEN Texts ELSE ConcTexts
InputNames == IF scenario = "concurrent" THEN 1..ConcFiles ELSE 1..MaxFiles
\* the delays a rate-limit signal can ask for: the delay changes nothing but
\* the length of the sleep, the smaller inputs have the longest one only
InputRetryAfters == IF scenario = "single" THEN 1..MaxRetryAfter ELSE {MaxRetryAfter}
\* the chats an update can come from: each request has its chat, but for the
\* single update drawn from all the inputs
InputChats(r) ==
    IF scenario = "single" THEN Chats ELSE {IF r = "r1" THEN "c1" ELSE "c2"}
\* the requests are named in the order in which their updates are posted
Earlier(r) == IF r = "r2" THEN {"r1"} ELSE {}

\* ------------------------------------------------------------- awaited calls
NoExc == [type |-> "none", retry_after |-> 0]
OtherError == [type |-> "Exception", retry_after |-> 0]
\* what a failing unlink or rmdir raises
OSError == [type |-> "OSError", retry_after |-> 0]
TelegramRetryAfter(n) == [type |-> "TelegramRetryAfter", retry_after |-> n]

\* what a send_document attempt can raise
SendErrors == {OtherError} \cup {TelegramRetryAfter(n) : n \in InputRetryAfters}

\* a call that has been started and has not returned yet
Call(op, arg) == [op |-> op, arg |-> arg, res |-> "pending", exc |-> NoExc]

\* the last call of the log returns
Returned(log) == [log EXCEPT ![Len(log)].res = "ok"]
\* the last call of the log raises exc
Raised(log, exc) == [log EXCEPT ![Len(log)].res = "raised", ![Len(log)].exc = exc]

\* message.answer(text)
answer(m, text) == Call("answer", [chat |-> m.chat, text |-> text])
\* status.edit_text(text)
edit_text(text) == Call("edit_text", [text |-> text])
\* status.delete()
delete == Call("delete", [text |-> ""])
\* bot.send_document(chat_id, FSInputFile(file_path))
send_document(chat_id, file_path) ==
    Call("send_document", [chat |-> chat_id, file |-> file_path])
\* asyncio.sleep(secs)
sleep(secs) == Call("sleep", [secs |-> secs])
\* loop.run_in_executor(None, _sync_dl)
run_in_executor(url, dest) == Call("download", [url |-> url, dest |-> dest])

\* ---------------------------------------------------- filesystem operations
\* the regular files of outdir.rglob("*")
rglob_files(outdir) == {f \in fsFiles : IsUnder(f.dir, outdir)}

\* the orders in which a directory walk can yield the files of S
Orders(S) ==
    {s \in [1..Cardinality(S) -> S] : \A i, j \in DOMAIN s : i # j => s[i] # s[j]}

\* the files left by the unlink loop of the finally block: every regular
\* file under outdir is unlinked, except those whose unlink raises (stuck)
unlink_all(outdir, stuck) == fsFiles \ (rglob_files(outdir) \ stuck)

\* Path.rmdir() succeeds on a directory with no entry left in it
IsEmptyDir(d, dirs, regular) ==
    /\ \A x \in dirs : Len(x) > Len(d) => ~IsUnder(x, d)
    /\ \A f \in regular : ~IsUnder(f.dir, d)

\* the directories left by outdir.rmdir(); tmpdir.rmdir() inside one try:
\* the second is attempted only when the first did not raise
rmdirs(td, regular) ==
    IF IsEmptyDir(OutDir(td), fsDirs, regular)
    THEN IF IsEmptyDir(td, fsDirs \ {OutDir(td)}, regular)
         THEN fsDirs \ {OutDir(td), td}
         ELSE fsDirs \ {OutDir(td)}
    ELSE fsDirs

\* mutant: the cleanup has no try/except, an unlink or rmdir error leaves it
Mutant_propagated(body, cleanup) == IF cleanup # {} THEN OSError ELSE body

\* the exception that leaves a try/finally whose body ended with `body` (NoExc:
\* it ended normally) and whose finally block caught the errors `cleanup`:
\* they were swallowed by `except Exception: pass`
propagated(body, cleanup) == body

\* the finally block of handle_mega, then the handler ends (how: "returned"
\* or "raised", decided by the body) and the webhook endpoint, which awaits
\* it through dp.feed_update, answers {"ok": True} or fails with the error
finish(r, log, how) ==
    \E stuck \in SUBSET rglob_files(OutDir(tmpdir[r])) :
        LET body == IF how = "raised" THEN log[Len(log)].exc ELSE NoExc
            left == rmdirs(tmpdir[r], unlink_all(OutDir(tmpdir[r]), stuck))
            caught == (IF stuck # {} THEN {"unlink"} ELSE {}) \cup
                      (IF tmpdir[r] \in left THEN {"rmdir"} ELSE {})
            exc == propagated(body, caught)
        IN
        /\ fsFiles' = unlink_all(OutDir(tmpdir[r]), stuck)
        /\ fsDirs' = left
        /\ calls' = [calls EXCEPT ![r] = log]
        /\ pc' = [pc EXCEPT ![r] = "done"]
        /\ error' = [error EXCEPT ![r] = exc]
        /\ outcome' = [outcome EXCEPT ![r] = IF exc = NoExc THEN "returned" ELSE "raised"]
        /\ response' = [response EXCEPT ![r] = IF exc = NoExc THEN "ok" ELSE "error"]

\* mutant: the workspace has a fixed name
Mutant_mkdtemp == TMP \o <<TmpNames[1]>>

\* tempfile.mkdtemp(dir="/tmp"): a directory of /tmp that does not exist yet;
\* the names are interchangeable, the first free one stands for any of them
mkdtemp ==
    LET free == {i \in DOMAIN TmpNames : TMP \o <<TmpNames[i]>> \notin fsDirs}
    IN  TMP \o <<TmpNames[CHOOSE i \in free : \A j \in free : i <= j]>>

\* ---------------------------------------------------------------- event loop
\* mutant: _sync_dl is called inline, on the thread of the event loop
Mutant_download_thread(r) == "loop"

\* the thread that runs the download of r: loop.run_in_executor(None, ...)
\* hands it to a worker thread of the default executor
download_thread(r) == "executor"

\* the single thread of the event loop is held by a blocking call
loop_busy == \E q \in Requests : fut[q] = "running" /\ download_thread(q) = "loop"

\* ------------------------------------------------------------------ dispatch
\* an update is posted to the webhook: dp.feed_update runs the first handler
\* whose filter accepts the message, up to its first await
webhook(r) ==
    /\ ~loop_busy
    /\ r \in pending
    /\ pending \cap Earlier(r) = {}
    /\ app.phase = "serving"
    /\ \E text \in InputTexts, chat \in InputChats(r) :
        LET m == [text |-> text, chat |-> chat] IN
        /\ pending' = pending \ {r}
        /\ msg' = [msg EXCEPT ![r] = m]
        /\ IF text = START_CMD
           THEN /\ pc' = [pc EXCEPT ![r] = "cmd_start"]
                /\ calls' = [calls EXCEPT ![r] = <<answer(m, START_TXT)>>]
                /\ UNCHANGED << link, response >>
           ELSE IF text # NoText /\ startswith(text, MEGA_PREFIXES)
           THEN /\ pc' = [pc EXCEPT ![r] = "answer"]
                /\ link' = [link EXCEPT ![r] = strip(text)]
                /\ calls' = [calls EXCEPT ![r] = <<answer(m, PREPARING_TXT)>>]
                /\ UNCHANGED response
           ELSE /\ pc' = [pc EXCEPT ![r] = "done"]
                /\ response' = [response EXCEPT ![r] = "ok"]
                /\ UNCHANGED << link, calls >>
    /\ UNCHANGED << tmpdir, files, idx, fut, fetched, outcome, error, fsDirs, fsFiles,
                    app, scenario >>

\* cmd_start: message.answer has returned
cmd_start(r) ==
    /\ ~loop_busy
    /\ pc[r] = "cmd_start"
    /\ pc' = [pc EXCEPT ![r] = "done"]
    /\ calls' = [calls EXCEPT ![r] = Returned(calls[r])]
    /\ outcome' = [outcome EXCEPT ![r] = "returned"]
    /\ response' = [response EXCEPT ![r] = "ok"]
    /\ UNCHANGED << pending, msg, link, tmpdir, files, idx, fut, fetched, fsDirs,
                    fsFiles, error, app, scenario >>

\* ---------------------------------------------------------------- handle_mega
\* message.answer has returned: mkdtemp, outdir.mkdir(), and the download is
\* handed to the executor
handle_mega_prepare(r) ==
    /\ ~loop_busy
    /\ pc[r] = "answer"
    /\ LET td == mkdtemp IN
        /\ tmpdir' = [tmpdir EXCEPT ![r] = td]
        /\ fsDirs' = fsDirs \cup {td, OutDir(td)}
        /\ calls' = [calls EXCEPT ![r] =
                        Append(Returned(calls[r]), run_in_executor(link[r], OutDir(td)))]
    /\ fut' = [fut EXCEPT ![r] = "running"]
    /\ pc' = [pc EXCEPT ![r] = "download"]
    /\ UNCHANGED << pending, msg, link, files, idx, fetched, outcome, error, response,
                    fsFiles, app, scenario >>

\* the worker thread: m.download_url(url, dest) writes regular files under
\* dest, directly or in a subdirectory, and returns or raises
_sync_dl(r) ==
    /\ fut[r] = "running"
    /\ LET dest == OutDir(tmpdir[r]) IN
       \E names \in SUBSET InputNames, mksub \in BOOLEAN, raises \in BOOLEAN :
       \E where \in [names -> {dest, SubDir(dest)}] :
        LET new == {File(where[n], n) : n \in names} IN
        /\ fsFiles' = fsFiles \cup new
        /\ fsDirs' = fsDirs \cup
               (IF mksub \/ \E f \in new : f.dir = SubDir(dest) THEN {SubDir(dest)} ELSE {})
        /\ fetched' = [fetched EXCEPT ![r] = new]
        /\ fut' = [fut EXCEPT ![r] = IF raises THEN "raised" ELSE "ok"]
    /\ UNCHANGED << pending, pc, msg, link, tmpdir, files, idx, calls, outcome, error,
                    response, app, scenario >>

\* the download raised: the finally block runs and the error leaves the handler
handle_mega_download_raised(r) ==
    /\ ~loop_busy
    /\ pc[r] = "download"
    /\ fut[r] = "raised"
    /\ finish(r, Raised(calls[r], OtherError), "raised")
    /\ UNCHANGED << pending, msg, link, tmpdir, files, idx, fut, fetched, app,
                    scenario >>

\* mutant: the "uploading" status is sent as a new message
Mutant_handle_mega_enumerate_answer(r) ==
    /\ ~loop_busy
    /\ pc[r] = "download"
    /\ fut[r] = "ok"
    /\ \E order \in Orders(rglob_files(OutDir(tmpdir[r]))) :
        /\ files' = [files EXCEPT ![r] = order]
        /\ IF order = <<>>
           THEN /\ pc' = [pc EXCEPT ![r] = "edit_nothing"]
                /\ calls' = [calls EXCEPT ![r] =
                                Append(Returned(calls[r]), edit_text(NOTHING_TXT))]
           ELSE /\ pc' = [pc EXCEPT ![r] = "edit_uploading"]
                /\ calls' = [calls EXCEPT ![r] =
                                Append(Returned(calls[r]), answer(msg[r], UPLOADING_TXT))]
    /\ UNCHANGED << pending, msg, link, tmpdir, idx, fut, fetched, outcome, error,
                    response, fsDirs, fsFiles, app, scenario >>

\* the download returned: the files are enumerated and the status is edited
handle_mega_enumerate(r) ==
    /\ ~loop_busy
    /\ pc[r] = "download"
    /\ fut[r] = "ok"
    /\ \E order \in Orders(rglob_files(OutDir(tmpdir[r]))) :
        /\ files' = [files EXCEPT ![r] = order]
        /\ IF order = <<>>
           THEN /\ pc' = [pc EXCEPT ![r] = "edit_nothing"]
                /\ calls' = [calls EXCEPT ![r] =
                                Append(Returned(calls[r]), edit_text(NOTHING_TXT))]
           ELSE /\ pc' = [pc EXCEPT ![r] = "edit_uploading"]
                /\ calls' = [calls EXCEPT ![r] =
                                Append(Returned(calls[r]), edit_text(UPLOADING_TXT))]
    /\ UNCHANGED << pending, msg, link, tmpdir, idx, fut, fetched, outcome, error,
                    response, fsDirs, fsFiles, app, scenario >>

\* mutant: an empty download is treated as an error
Mutant_handle_mega_nothing_raises(r) ==
    /\ ~loop_busy
    /\ pc[r] = "edit_nothing"
    /\ finish(r, Raised(calls[r], OtherError), "raised")
    /\ UNCHANGED << pending, msg, link, tmpdir, files, idx, fut, fetched, app,
                    scenario >>

\* nothing was downloaded: the edit has returned, the handler returns
handle_mega_nothing(r) ==
    /\ ~loop_busy
    /\ pc[r] = "edit_nothing"
    /\ finish(r, Returned(calls[r]), "returned")
    /\ UNCHANGED << pending, msg, link, tmpdir, files, idx, fut, fetched, app,
                    scenario >>

\* mutant: the uploads of all the files are started together
Mutant_handle_mega_upload_gather(r) ==
    /\ ~loop_busy
    /\ pc[r] = "edit_uploading"
    /\ idx' = [idx EXCEPT ![r] = 1]
    /\ pc' = [pc EXCEPT ![r] = "send1"]
    /\ calls' = [calls EXCEPT ![r] =
                    Returned(calls[r]) \o
                    [i \in DOMAIN files[r] |-> send_document(msg[r].chat, files[r][i])]]
    /\ UNCHANGED << pending, msg, link, tmpdir, files, fut, fetched, outcome, error,
                    response, fsDirs, fsFiles, app, scenario >>

\* mutant: the status message is deleted before the uploads
Mutant_handle_mega_upload_first_delete(r) ==
    /\ ~loop_busy
    /\ pc[r] = "edit_uploading"
    /\ idx' = [idx EXCEPT ![r] = 1]
    /\ pc' = [pc EXCEPT ![r] = "send1"]
    /\ calls' = [calls EXCEPT ![r] =
                    Append(Returned(Append(Returned(calls[r]), delete)),
                           send_document(msg[r].chat, files[r][1]))]
    /\ UNCHANGED << pending, msg, link, tmpdir, files, fut, fetched, outcome, error,
                    response, fsDirs, fsFiles, app, scenario >>

\* the "uploading" edit has returned: the for loop starts with the first file
handle_mega_upload_first(r) ==
    /\ ~loop_busy
    /\ pc[r] = "edit_uploading"
    /\ idx' = [idx EXCEPT ![r] = 1]
    /\ pc' = [pc EXCEPT ![r] = "send1"]
    /\ calls' = [calls EXCEPT ![r] =
                    Append(Returned(calls[r]), send_document(msg[r].chat, files[r][1]))]
    /\ UNCHANGED << pending, msg, link, tmpdir, files, fut, fetched, outcome, error,
                    response, fsDirs, fsFiles, app, scenario >>

\* mutant: the loop ends after its first file
Mutant_next_file_stop(r, log) ==
    /\ pc' = [pc EXCEPT ![r] = "delete"]
    /\ calls' = [calls EXCEPT ![r] = Append(log, delete)]
    /\ UNCHANGED idx

\* _upload_file has returned: the loop goes to the next file, or, after the
\* last one, to status.delete()
next_file(r, log) ==
    IF idx[r] < Len(files[r])
    THEN /\ idx' = [idx EXCEPT ![r] = idx[r] + 1]
         /\ pc' = [pc EXCEPT ![r] = "send1"]
         /\ calls' = [calls EXCEPT ![r] =
                         Append(log, send_document(msg[r].chat, files[r][idx[r] + 1]))]
    ELSE /\ pc' = [pc EXCEPT ![r] = "delete"]
         /\ calls' = [calls EXCEPT ![r] = Append(log, delete)]
         /\ UNCHANGED idx

\* mutant: a file is unlinked as soon as it has been sent
Mutant_upload_file_sent_unlink(r) ==
    /\ ~loop_busy
    /\ pc[r] = "send1"
    /\ next_file(r, Returned(calls[r]))
    /\ fsFiles' = fsFiles \ {files[r][idx[r]]}
    /\ UNCHANGED << pending, msg, link, tmpdir, files, fut, fetched, outcome, error,
                    response, fsDirs, app, scenario >>

\* _upload_file: the first send_document returned
_upload_file_sent(r) ==
    /\ ~loop_busy
    /\ pc[r] = "send1"
    /\ next_file(r, Returned(calls[r]))
    /\ UNCHANGED << pending, msg, link, tmpdir, files, fut, fetched, outcome, error,
                    response, fsDirs, fsFiles, app, scenario >>

\* _upload_file: the first send_document raised TelegramRetryAfter: sleep
_upload_file_flood(r) ==
    /\ ~loop_busy
    /\ pc[r] = "send1"
    /\ \E n \in InputRetryAfters :
        LET e == TelegramRetryAfter(n) IN
        calls' = [calls EXCEPT ![r] = Append(Raised(calls[r], e), sleep(e.retry_after))]
    /\ pc' = [pc EXCEPT ![r] = "sleep"]
    /\ UNCHANGED << pending, msg, link, tmpdir, files, idx, fut, fetched, outcome,
                    error, response, fsDirs, fsFiles, app, scenario >>

\* mutant: every exception of the first attempt is answered by a retry
Mutant_upload_file_failed_retry(r) ==
    /\ ~loop_busy
    /\ pc[r] = "send1"
    /\ calls' = [calls EXCEPT ![r] = Append(Raised(calls[r], OtherError), sleep(1))]
    /\ pc' = [pc EXCEPT ![r] = "sleep"]
    /\ UNCHANGED << pending, msg, link, tmpdir, files, idx, fut, fetched, outcome,
                    error, response, fsDirs, fsFiles, app, scenario >>

\* mutant: a failed upload is skipped and the loop goes on
Mutant_upload_file_failed_continue(r) ==
    /\ ~loop_busy
    /\ pc[r] = "send1"
    /\ next_file(r, Raised(calls[r], OtherError))
    /\ UNCHANGED << pending, msg, link, tmpdir, files, fut, fetched, outcome, error,
                    response, fsDirs, fsFiles, app, scenario >>

\* _upload_file: the first send_document raised something else, which leaves
\* _upload_file and handle_mega
_upload_file_failed(r) ==
    /\ ~loop_busy
    /\ pc[r] = "send1"
    /\ finish(r, Raised(calls[r], OtherError), "raised")
    /\ UNCHANGED << pending, msg, link, tmpdir, files, idx, fut, fetched, app,
                    scenario >>

\* _upload_file: the sleep is over, send_document is called a second time
_upload_file_retry(r) ==
    /\ ~loop_busy
    /\ pc[r] = "sleep"
    /\ pc' = [pc EXCEPT ![r] = "send2"]
    /\ calls' = [calls EXCEPT ![r] =
                    Append(Returned(calls[r]),
                           send_document(msg[r].chat, files[r][idx[r]]))]
    /\ UNCHANGED << pending, msg, link, tmpdir, files, idx, fut, fetched, outcome,
                    error, response, fsDirs, fsFiles, app, scenario >>

\* _upload_file: the second send_document returned
_upload_file_resent(r) ==
    /\ ~loop_busy
    /\ pc[r] = "send2"
    /\ next_file(r, Returned(calls[r]))
    /\ UNCHANGED << pending, msg, link, tmpdir, files, fut, fetched, outcome, error,
                    response, fsDirs, fsFiles, app, scenario >>

\* mutant: _upload_file retries in a loop for as long as the rate limit is
\* signalled
Mutant_upload_file_refailed_loop(r) ==
    /\ ~loop_busy
    /\ pc[r] = "send2"
    /\ \/ \E n \in InputRetryAfters :
            /\ calls' = [calls EXCEPT ![r] =
                            Append(Raised(calls[r], TelegramRetryAfter(n)), sleep(n))]
            /\ pc' = [pc EXCEPT ![r] = "sleep"]
            /\ UNCHANGED << outcome, error, response, fsDirs, fsFiles >>
       \/ finish(r, Raised(calls[r], OtherError), "raised")
    /\ UNCHANGED << pending, msg, link, tmpdir, files, idx, fut, fetched, app,
                    scenario >>

\* mutant: the retry is retried after another sleep
Mutant_upload_file_refailed_again(r) ==
    /\ ~loop_busy
    /\ pc[r] = "send2"
    /\ \E n \in InputRetryAfters :
        calls' = [calls EXCEPT ![r] =
                     Append(Raised(calls[r], TelegramRetryAfter(n)), sleep(n))]
    /\ pc' = [pc EXCEPT ![r] = "sleep"]
    /\ UNCHANGED << pending, msg, link, tmpdir, files, idx, fut, fetched, outcome,
                    error, response, fsDirs, fsFiles, app, scenario >>

\* _upload_file: the second send_document raised (it is outside the try):
\* the error leaves _upload_file and handle_mega
_upload_file_refailed(r) ==
    /\ ~loop_busy
    /\ pc[r] = "send2"
    /\ \E e \in SendErrors : finish(r, Raised(calls[r], e), "raised")
    /\ UNCHANGED << pending, msg, link, tmpdir, files, idx, fut, fetched, app,
                    scenario >>

\* status.delete() has returned: the handler returns
handle_mega_deleted(r) ==
    /\ ~loop_busy
    /\ pc[r] = "delete"
    /\ finish(r, Returned(calls[r]), "returned")
    /\ UNCHANGED << pending, msg, link, tmpdir, files, idx, fut, fetched, app,
                    scenario >>

\* ------------------------------------------------------------------ process
requestVars == << pending, pc, msg, link, tmpdir, files, idx, calls, fut, fetched,
                  outcome, response, error, scenario, fsDirs, fsFiles >>

\* on_startup: bot.set_webhook has returned, the process serves requests
on_startup ==
    /\ ~loop_busy
    /\ app.phase = "created"
    /\ app' = [app EXCEPT !.phase = "serving"]
    /\ UNCHANGED requestVars

\* health: the endpoint answers {"status": "ok"}; it reads and writes nothing
health ==
    /\ ~loop_busy
    /\ app.phase = "serving"
    /\ UNCHANGED << requestVars, app >>

\* the server stops once no request is in flight; on_shutdown starts and
\* awaits bot.delete_webhook()
on_shutdown ==
    /\ ~loop_busy
    /\ app.phase = "serving"
    /\ \A r \in Requests : pc[r] \in {"idle", "done"}
    /\ app' = [app EXCEPT !.phase = "delete_webhook"]
    /\ UNCHANGED requestVars

\* on_shutdown: bot.delete_webhook() returned, bot.session.close() is awaited
\* and the hook returns
on_shutdown_closed ==
    /\ ~loop_busy
    /\ app.phase = "delete_webhook"
    /\ app' = [app EXCEPT !.phase = "stopped", !.session = "closed", !.hook = "returned"]
    /\ UNCHANGED requestVars

\* on_shutdown: bot.delete_webhook() raised, the error leaves the hook
on_shutdown_failed ==
    /\ ~loop_busy
    /\ app.phase = "delete_webhook"
    /\ app' = [app EXCEPT !.phase = "stopped", !.hook = "raised"]
    /\ UNCHANGED requestVars

\* the steps of the event loop for request r, after its update was posted
LoopStep(r) ==
    \/ cmd_start(r)
    \/ handle_mega_prepare(r)
    \/ handle_mega_download_raised(r)
    \/ handle_mega_enumerate(r)
    \/ handle_mega_nothing(r)
    \/ handle_mega_upload_first(r)
    \/ _upload_file_sent(r)
    \/ _upload_file_flood(r)
    \/ _upload_file_failed(r)
    \/ _upload_file_retry(r)
    \/ _upload_file_resent(r)
    \/ _upload_file_refailed(r)
    \/ handle_mega_deleted(r)

Next ==
    \/ on_startup
    \/ \E r \in Requests :
        \/ webhook(r)
        \/ cmd_start(r)
        \/ handle_mega_prepare(r)
        \/ _sync_dl(r)
        \/ handle_mega_download_raised(r)
        \/ handle_mega_enumerate(r)
        \/ handle_mega_nothing(r)
        \/ handle_mega_upload_first(r)
        \/ _upload_file_sent(r)
        \/ _upload_file_flood(r)
        \/ _upload_file_failed(r)
        \/ _upload_file_retry(r)
        \/ _upload_file_resent(r)
        \/ _upload_file_refailed(r)
        \/ handle_mega_deleted(r)

\* one request, all the inputs
Spec == Init /\ [][Next]_vars

\* concurrent requests and health checks
NextConc ==
    \/ Next
    \/ health

SpecConc == InitApp /\ [][NextConc]_vars

\* the whole process: concurrent requests, health checks and the shutdown
NextApp ==
    \/ Next
    \/ health
    \/ on_shutdown
    \/ on_shutdown_closed
    \/ on_shutdown_failed

SpecApp == InitApp /\ [][NextApp]_vars

\* every call that was started returns or raises, the worker thread runs, and
\* the event loop resumes the handler that awaits
SpecLive ==
    /\ InitLive
    /\ [][NextConc]_vars
    /\ \A r \in Requests : WF_vars(LoopStep(r)) /\ WF_vars(_sync_dl(r))

\* ------------------------------------------------- reading the list of calls
\* the positions of the send_document attempts in a list of calls
Sends(L) == {i \in DOMAIN L : L[i].op = "send_document"}
\* those for file f
SendsOf(L, f) == {i \in Sends(L) : L[i].arg.file = f}
\* the attempt at i is the first one for its file
IsFirstAttempt(L, i) == \A j \in Sends(L) : j < i => L[j].arg.file # L[i].arg.file
\* the call raised the rate-limit signal
IsFlood(c) == c.res = "raised" /\ c.exc.type = "TelegramRetryAfter"
\* the attempt at i ended the upload of its file as a failure: it raised, and
\* it was not a first attempt answered by the rate-limit signal
Unrecovered(L, i) ==
    /\ i \in Sends(L)
    /\ L[i].res = "raised"
    /\ ~(IsFirstAttempt(L, i) /\ IsFlood(L[i]))
\* the download of the request raised
DownloadRaised(L) == \E i \in DOMAIN L : L[i].op = "download" /\ L[i].res = "raised"
\* the download of the request returned
DownloadReturned(L) == \E i \in DOMAIN L : L[i].op = "download" /\ L[i].res = "ok"
\* the request failed: its download raised or one of its uploads failed
Failed(L) == DownloadRaised(L) \/ \E i \in Sends(L) : Unrecovered(L, i)
\* status.delete() was called
Deleted(L) == \E i \in DOMAIN L : L[i].op = "delete"
\* the files of the documents that were delivered, in the order of delivery
Delivered(L) ==
    LET ok == SelectSeq(L, LAMBDA c : c.op = "send_document" /\ c.res = "ok")
    IN  [i \in DOMAIN ok |-> ok[i].arg.file]
\* the text the status message shows: that of the last answer or edit
StatusText(L) ==
    LET shown == SelectSeq(L, LAMBDA c : c.op \in {"answer", "edit_text"} /\ c.res = "ok")
    IN  IF shown = <<>> THEN "" ELSE shown[Len(shown)].arg.text

\* something of the workspace of r is left on the filesystem
WorkspaceLeft(r) ==
    \/ \E d \in fsDirs : IsUnder(d, tmpdir[r])
    \/ \E f \in fsFiles : IsUnder(f.dir, tmpdir[r])

\* the four accepted prefixes: http or https, mega.nz or mega.co.nz
HasAcceptedPrefix(text) ==
    \E s \in {HTTP, HTTPS}, h \in {MEGA_NZ, MEGA_CO_NZ} :
        LET p == s \o SEP \o h \o SLASH IN
        /\ Len(text) >= Len(p)
        /\ \A i \in 1..Len(p) : text[i] = p[i]

\* ----------------------------------------------------------------------- C1
\* C1: once handle_mega has ended, in a run that created the workspace and
\* in which every unlink of the cleanup succeeded (no regular file is left),
\* neither the root directory nor anything under it exists.
C1_WorkspaceRemoved ==
    \A r \in Requests :
        (/\ pc[r] = "done"
         /\ tmpdir[r] # NoDir
         /\ \A f \in fsFiles : ~IsUnder(f.dir, tmpdir[r]))
        => ~WorkspaceLeft(r)

\* ----------------------------------------------------------------------- C2
\* C2: for a message whose text does not start with one of the four accepted
\* prefixes the relay pipeline is never invoked: no status message is sent,
\* no workspace is created, no download and no upload is started.
C2_NoPipelineWithoutPrefix ==
    \A r \in Requests \ pending :
        ~HasAcceptedPrefix(msg[r].text) =>
            /\ tmpdir[r] = NoDir
            /\ fut[r] = "none"
            /\ fetched[r] = {}
            /\ \A i \in DOMAIN calls[r] :
                /\ calls[r][i].op = "answer"
                /\ calls[r][i].arg.text # PREPARING_TXT

\* a link preceded by a space was received and its request is over
C2_Witness ==
    \E r \in Requests :
        /\ pc[r] = "done"
        /\ msg[r].text = SPACE \o HTTPS \o SEP \o MEGA_NZ \o SLASH \o TAIL
        /\ response[r] = "ok"

\* ----------------------------------------------------------------------- C3
\* C3: when the first send_document attempt for a file raises the rate-limit
\* signal with retry_after = N, the uploader sleeps exactly N and then makes
\* one more attempt for the same file and chat; when that one raises the
\* rate-limit signal too, the error leaves the handler and nothing is called
\* after it.  No file has more than two attempts.
C3_OneRetry ==
    \A r \in Requests :
        LET L == calls[r] IN
        /\ \A f \in fetched[r] : Cardinality(SendsOf(L, f)) <= 2
        /\ \A i \in Sends(L) :
            (IsFirstAttempt(L, i) /\ IsFlood(L[i])) =>
                /\ i + 1 \in DOMAIN L
                /\ L[i + 1].op = "sleep"
                /\ L[i + 1].arg.secs = L[i].exc.retry_after
                /\ L[i + 1].res = "ok" =>
                    /\ i + 2 \in DOMAIN L
                    /\ L[i + 2].op = "send_document"
                    /\ L[i + 2].arg = L[i].arg
                    /\ IsFlood(L[i + 2]) =>
                        /\ Len(L) = i + 2
                        /\ pc[r] = "done"
                        /\ outcome[r] = "raised"

\* both attempts for a file were answered by the rate-limit signal, the first
\* one with retry_after = MaxRetryAfter
C3_Witness ==
    \E r \in Requests : \E i \in Sends(calls[r]) :
        /\ IsFirstAttempt(calls[r], i)
        /\ IsFlood(calls[r][i])
        /\ calls[r][i].exc.retry_after = MaxRetryAfter
        /\ i + 2 \in DOMAIN calls[r]
        /\ IsFlood(calls[r][i + 2])
        /\ pc[r] = "done"

C5_FailureReported ==
    \A r \in Requests :
        (pc[r] = "done" /\ Failed(calls[r])) =>
            /\ StatusText(calls[r]) \notin {"", PREPARING_TXT, UPLOADING_TXT, NOTHING_TXT}
            /\ ~Deleted(calls[r])
            /\ DownloadRaised(calls[r]) => Sends(calls[r]) = {}

\* ----------------------------------------------------------------------- C6
\* C6: no failure of the download or of an upload leaves the handler: the
\* handler returns and the webhook endpoint answers ok.
C6_NoFailureEscapes ==
    \A r \in Requests :
        (pc[r] = "done" /\ Failed(calls[r])) =>
            /\ outcome[r] = "returned"
            /\ response[r] = "ok"

\* ----------------------------------------------------------------------- C7
\* C7: when the upload of a file fails unrecovered, no upload attempt is made
\* after it, no file that was already delivered is sent again, and the status
\* message is not deleted.
C7_AbandonAfterFailure ==
    \A r \in Requests :
        LET L == calls[r] IN
        \A i \in Sends(L) :
            Unrecovered(L, i) =>
                /\ \A j \in Sends(L) : j <= i
                /\ \A j, k \in Sends(L) :
                       (j < k /\ L[j].res = "ok") => L[k].arg.file # L[j].arg.file
                /\ ~Deleted(L)
                /\ pc[r] = "done"

\* the second of two files failed after the first one was delivered
C7_Witness ==
    \E r \in Requests : \E i, j \in Sends(calls[r]) :
        /\ j < i
        /\ calls[r][j].res = "ok"
        /\ Unrecovered(calls[r], i)
        /\ calls[r][i].arg.file # calls[r][j].arg.file
        /\ pc[r] = "done"

AllUploaded(r) ==
    /\ fetched[r] # {}
    /\ \A f \in fetched[r] :
           \E i \in SendsOf(calls[r], f) : calls[r][i].res = "ok"

C10_FetchThenSequentialUploads ==
    \A r \in Requests :
        LET L == calls[r] IN
        /\ Sends(L) # {} => fut[r] = "ok"
        /\ \A i \in Sends(L) :
               \E j \in 1..(i - 1) : L[j].op = "download" /\ L[j].res = "ok"
        /\ Cardinality({i \in Sends(L) : L[i].res = "pending"}) <= 1
        /\ \A i \in Sends(L) : \A j \in 1..(i - 1) : L[j].res # "pending"

\* the upload of the second file is in flight after the first file needed
\* its retry
C10_Witness ==
    \E r \in Requests : \E i \in Sends(calls[r]) :
        /\ calls[r][i].res = "pending"
        /\ Cardinality(Sends(calls[r])) = 3
        /\ Len(Delivered(calls[r])) = 1

\* ---------------------------------------------------------------------- C11
\* C11: when a send_document attempt, first or second, raises anything other
\* than the rate-limit signal, the failure leaves the handler at once: no
\* sleep and no further send attempt follows it.
C11_OtherFailureImmediate ==
    \A r \in Requests :
        LET L == calls[r] IN
        \A i \in Sends(L) :
            (L[i].res = "raised" /\ L[i].exc.type # "TelegramRetryAfter") =>
                /\ Len(L) = i
                /\ pc[r] = "done"
                /\ outcome[r] = "raised"

\* the retry of a file failed with an error that is not the rate-limit signal
C11_Witness ==
    \E r \in Requests : \E i \in Sends(calls[r]) :
        /\ ~IsFirstAttempt(calls[r], i)
        /\ calls[r][i].res = "raised"
        /\ calls[r][i].exc = OtherError
        /\ pc[r] = "done"

\* ---------------------------------------------------------------------- C12
\* C12: every message whose text, after trimming leading and trailing
\* whitespace, starts with an accepted prefix triggers the relay pipeline: a
\* status message is sent and, once it is sent, the download is started.
C12_TrimmedPrefixTriggers ==
    \A r \in Requests \ pending :
        (msg[r].text # NoText /\ HasAcceptedPrefix(strip(msg[r].text))) =>
            /\ calls[r] # <<>>
            /\ calls[r][1].op = "answer"
            /\ calls[r][1].arg.text = PREPARING_TXT
            /\ calls[r][1].res = "ok" => fut[r] # "none"

\* ---------------------------------------------------------------------- C15
\* C15: a request sends at most one status message, and exactly one once its
\* pipeline has started; every other status call is an edit or the deletion
\* of that message, made after it was sent, and nothing is edited after the
\* deletion.
StatusSends(L) == {i \in DOMAIN L : L[i].op = "answer" /\ L[i].arg.text # START_TXT}

C15_OneStatusMessage ==
    \A r \in Requests :
        LET L == calls[r] IN
        /\ Cardinality(StatusSends(L)) <= 1
        /\ (pc[r] = "answer" \/ tmpdir[r] # NoDir) => StatusSends(L) = {1}
        /\ \A i \in DOMAIN L :
            L[i].op \in {"edit_text", "delete"} =>
                /\ StatusSends(L) = {1}
                /\ L[1].res = "ok"
                /\ \A j \in 1..(i - 1) : L[j].op # "delete"

\* the status message was sent, edited and deleted
C15_Witness ==
    \E r \in Requests :
        /\ pc[r] = "done"
        /\ Deleted(calls[r])
        /\ \E i \in DOMAIN calls[r] :
               calls[r][i].op = "edit_text" /\ calls[r][i].arg.text = UPLOADING_TXT

\* ---------------------------------------------------------------------- C19
\* C19: no fetched file is removed before the handler is through with its
\* uploads: while the request is not over every fetched file exists, and the
\* file of a send_document call in flight exists.
C19_FilesKeptUntilUploadsOver ==
    \A r \in Requests :
        /\ \A f \in fetched[r] : f \notin fsFiles => pc[r] = "done"
        /\ \A i \in Sends(calls[r]) :
               calls[r][i].res = "pending" => calls[r][i].arg.file \in fsFiles

\* the retry for the second file is in flight and both files exist
C19_Witness ==
    \E r \in Requests :
        /\ pc[r] = "send2"
        /\ idx[r] = 2
        /\ Cardinality(fetched[r]) = 2
        /\ fetched[r] \subseteq fsFiles

\* ---------------------------------------------------------------------- C14
\* C14: an unlink or rmdir that fails during the cleanup never leaves the
\* handler and never changes its outcome: when the last call of the body
\* returned the handler returns normally and the request is answered, and when
\* it raised, the handler raises that same error, whatever the cleanup left
\* behind.
C14_CleanupFailuresSwallowed ==
    \A r \in Requests :
        (pc[r] = "done" /\ tmpdir[r] # NoDir) =>
            LET last == calls[r][Len(calls[r])] IN
            /\ last.res \in {"ok", "raised"}
            /\ last.res = "ok" =>
                /\ outcome[r] = "returned"
                /\ error[r] = NoExc
                /\ response[r] = "ok"
            /\ last.res = "raised" =>
                /\ outcome[r] = "raised"
                /\ error[r] = last.exc
                /\ error[r] # OSError

\* an upload failed for good, and the cleanup could neither unlink a file nor
\* remove the directories
C14_Witness ==
    \E r \in Requests :
        /\ pc[r] = "done"
        /\ \E i \in Sends(calls[r]) : Unrecovered(calls[r], i)
        /\ \E f \in fsFiles : IsUnder(f.dir, tmpdir[r])
        /\ tmpdir[r] \in fsDirs
        /\ outcome[r] = "raised"

\* ---------------------------------------------------------------------- C13
\* a request that holds a workspace and has not run its cleanup yet
Live(r) == tmpdir[r] # NoDir /\ pc[r] # "done"

\* C13: under every interleaving of the requests, two live requests never
\* hold the same workspace; the workspace of a live request and the files
\* fetched into it exist; a request enumerates and uploads only files that
\* were fetched under its own output directory; and a step removes a file or a
\* directory only as the cleanup of the request whose workspace holds it.
C13_OwnWorkspace ==
    /\ [](\A r \in Requests :
            /\ \A q \in Requests \ {r} :
                   (Live(r) /\ Live(q)) =>
                       /\ ~IsUnder(tmpdir[r], tmpdir[q])
                       /\ ~IsUnder(tmpdir[q], tmpdir[r])
            /\ Live(r) =>
                /\ {tmpdir[r], OutDir(tmpdir[r])} \subseteq fsDirs
                /\ fetched[r] \subseteq fsFiles
            /\ \A f \in fetched[r] : IsUnder(f.dir, OutDir(tmpdir[r]))
            /\ \A i \in DOMAIN files[r] : files[r][i] \in fetched[r]
            /\ \A i \in Sends(calls[r]) : calls[r][i].arg.file \in fetched[r])
    /\ [][/\ \A f \in fsFiles \ fsFiles' :
                \E r \in Requests :
                    Live(r) /\ pc'[r] = "done" /\ IsUnder(f.dir, tmpdir[r])
          /\ \A d \in fsDirs \ fsDirs' :
                \E r \in Requests :
                    Live(r) /\ pc'[r] = "done" /\ IsUnder(d, tmpdir[r])]_vars

\* one request has ended and its workspace is gone, while another request,
\* which acquired its workspace before that cleanup, is uploading its files
C13_Witness ==
    \E r \in Requests : \E q \in Requests \ {r} :
        /\ pc[r] = "done"
        /\ fetched[r] # {}
        /\ tmpdir[r] \notin fsDirs
        /\ pc[q] = "send1"
        /\ tmpdir[q] \notin {NoDir, tmpdir[r]}
        /\ fetched[q] # {}
        /\ fetched[q] \subseteq fsFiles

\* ---------------------------------------------------------------------- C16
\* the download calls of a list of calls
Downloads(L) == {i \in DOMAIN L : L[i].op = "download"}

\* C16: while the download of a request is in progress the event loop is free:
\* it can answer a health check, take the update of another request and
\* resume the handler of another request that waits for a call other than a
\* download in progress.  The outcome of the download goes to the handler of
\* the same request: once the worker thread is through, that handler can
\* resume, and it sees the download return exactly when the thread returned
\* and raise exactly when the thread raised.
C16_DownloadOffLoop ==
    \A r \in Requests :
        /\ fut[r] = "running" =>
            /\ ENABLED health
            /\ \A q \in Requests \ {r} :
                /\ (q \in pending /\ pending \cap Earlier(q) = {}) => ENABLED webhook(q)
                /\ (pc[q] \notin {"idle", "done"} /\ fut[q] # "running") =>
                       ENABLED LoopStep(q)
        /\ Downloads(calls[r]) = {} <=> fut[r] = "none"
        /\ \A i \in Downloads(calls[r]) :
            /\ calls[r][i].arg.dest = OutDir(tmpdir[r])
            /\ calls[r][i].res = "pending" <=> pc[r] = "download"
            /\ calls[r][i].res = "ok" => fut[r] = "ok"
            /\ calls[r][i].res = "raised" => fut[r] = "raised"
            /\ (calls[r][i].res = "pending" /\ fut[r] # "running") =>
                   ENABLED (handle_mega_enumerate(r) \/ handle_mega_download_raised(r))

\* the download of one request is still in progress, and another request,
\* which acquired its workspace after that download started, has fetched its
\* files and uploads the first one
C16_Witness ==
    \E r \in Requests : \E q \in Requests \ {r} :
        /\ fut[r] = "running"
        /\ tmpdir[r] = TMP \o <<TmpNames[1]>>
        /\ tmpdir[q] = TMP \o <<TmpNames[2]>>
        /\ pc[q] = "send1"

\* ---------------------------------------------------------------------- C17
\* C17: when every call that was started returns or raises, every request
\* whose update was taken comes to its end, through the cleanup if it had a
\* workspace; a request never has more than two send attempts per fetched
\* file, and never more than three calls per fetched file besides the status
\* message, the download, the edit and the deletion.
C17_Terminates ==
    /\ [](\A r \in Requests :
            /\ Cardinality(Sends(calls[r])) <= 2 * Cardinality(fetched[r])
            /\ Len(calls[r]) <= 4 + 3 * Cardinality(fetched[r]))
    /\ \A r \in Requests :
            (pc[r] # "idle") ~>
                (pc[r] = "done" /\ (tmpdir[r] # NoDir => outcome[r] # "none"))

\* a request that fetched two files is over: it made two send attempts for
\* each of them, and its cleanup removed the workspace
C17_Witness ==
    \E r \in Requests :
        /\ pc[r] = "done"
        /\ Cardinality(fetched[r]) = 2
        /\ Cardinality(Sends(calls[r])) = 4
        /\ tmpdir[r] \notin fsDirs

\* ---------------------------------------------------------------------- C18
\* C18: once on_shutdown is over the bot session is closed, whether
\* bot.delete_webhook() returned or raised; and the session is open for as
\* long as the process serves: it is closed only after on_shutdown began,
\* when no update can be taken and no handler is in flight.
C18_SessionClosedAtShutdown ==
    /\ app.phase = "stopped" => app.session = "closed"
    /\ app.session = "closed" =>
        /\ app.phase = "stopped"
        /\ \A r \in Requests : pc[r] \in {"idle", "done"} /\ ~ENABLED webhook(r)

====
